---- MODULE Spec2Model ----
(***************************************************************************)
(* TrimReaper: the WAV path of trim_audio_file (src/audio_trim.py) as a   *)
(* state machine over one invocation, with find_zero_crossing,            *)
(* find_end_point and the sample codec as operators.                      *)
(*                                                                         *)
(* Python sequences are 0-based; At(s, i) reads s[i].  A raised Python    *)
(* exception is a value (IndexError, ZeroDivisionError) that the calling  *)
(* action turns into the `except Exception: return False` outcome.        *)
(***************************************************************************)
EXTENDS Integers, Sequences, FiniteSets, TLC

\* ---------------------------------------------------------------- bounds
\* Longest buffer, in frames.
MaxFrames == 4
\* Longest buffer, in samples (frames * channels).
MaxSamples == 8
\* Longest buffer, in bytes (frames * channels * sample width).
MaxBytes == 16
\* find_end_point's window_size (default 1024 in the source), scaled down.
ScanWindow == 2
\* find_zero_crossing's window (default 1000 in the source), scaled down.
\* As in the source, ZcWindow - 1 < ScanWindow <= 2 * (ZcWindow - 1).
ZcWindow == 2
\* The frame rate of the input file, in Hz.
Framerate == 10

\* Channel counts of the inputs.
ChannelCounts == {1, 2}
\* Sample widths (bytes) of the inputs; 5 is an unsupported width.
SampleWidths == {1, 2, 3, 4, 5}
\* threshold_db values of the inputs (multiples of 20 dB, at most 0).
Thresholds == {-60, -40}
\* min_duration_sec values of the inputs, in half seconds (0.0 and the default 0.5).
MinDurationHalves == {0, 1}

\* ---------------------------------------------------------------- helpers
Min(a, b) == IF a < b THEN a ELSE b
Max(a, b) == IF a > b THEN a ELSE b
Abs(x) == IF x < 0 THEN -x ELSE x
At(s, i) == s[i + 1]

RECURSIVE Pow10(_)
Pow10(k) == IF k <= 0 THEN 1 ELSE 10 * Pow10(k - 1)

RECURSIVE Pow256(_)
Pow256(k) == IF k <= 0 THEN 1 ELSE 256 * Pow256(k - 1)

RECURSIVE SeqMax(_)
SeqMax(s) == IF Len(s) = 1 THEN s[1] ELSE Max(s[1], SeqMax(Tail(s)))

RECURSIVE Flatten(_)
Flatten(ss) == IF ss = <<>> THEN <<>> ELSE Head(ss) \o Flatten(Tail(ss))

\* The values that model a raised exception; no index or length is negative.
IndexError == -1
ZeroDivisionError == -2

\* ---------------------------------------------------------------- format
Supported(sample_width) == sample_width \in {1, 2, 3, 4}
\* A zero point of 0 for every width, the unsigned 8-bit one included.
ZeroOfSigned(sample_width) == 0

ZeroOf(sample_width) == IF sample_width = 1 THEN 128 ELSE 0
MaxValOf(sample_width) ==
    CASE sample_width = 1 -> 255
      [] sample_width = 2 -> 32767
      [] sample_width = 3 -> 8388607
      [] OTHER -> 2147483647

\* ---------------------------------------------------------------- codec
\* array.array(fmt).frombytes: little-endian items of `width` bytes, the top
\* byte signed for 'h' and 'i', unsigned for 'B'.
ItemOf(bytes, k, width, signed) ==
    LET base == (k - 1) * width
        top  == bytes[base + width]
        S[j \in 0..(width - 1)] ==
            IF j = 0 THEN 0 ELSE S[j - 1] + bytes[base + j] * Pow256(j - 1)
    IN S[width - 1] + Pow256(width - 1) * (IF signed /\ top >= 128 THEN top - 256 ELSE top)

FromBytes(bytes, width, signed) ==
    [k \in 1..(Len(bytes) \div width) |-> ItemOf(bytes, k, width, signed)]

\* array.array.tobytes: the inverse, two's complement for negative items.
ByteOf(v, j) == (v \div Pow256(j)) % 256

ToBytes(items, width) ==
    [n \in 1..(Len(items) * width) |-> ByteOf(items[((n - 1) \div width) + 1], (n - 1) % width)]

\* A decode that pads every group with 0x00, whatever the top bit of the 3rd byte.
Unpack24ZeroExtended(audio_data) ==
    LET n == Len(audio_data) \div 3
    IN [m \in 1..(4 * n) |->
            IF (m - 1) % 4 < 3 THEN At(audio_data, 3 * ((m - 1) \div 4) + ((m - 1) % 4)) ELSE 0]

\* 24-bit decode: each whole 3-byte group becomes 4 bytes, the 4th 0xFF when
\* the top bit of the 3rd is set; a trailing partial group is skipped.
Unpack24(audio_data) ==
    LET groups == {i \in 0..(Len(audio_data) - 1) : i % 3 = 0 /\ i + 2 < Len(audio_data)}
        n == Cardinality(groups)
    IN [m \in 1..(4 * n) |->
            LET i == 3 * ((m - 1) \div 4)
                j == (m - 1) % 4
            IN IF j < 3 THEN At(audio_data, i + j)
               ELSE IF At(audio_data, i + 2) >= 128 THEN 255 ELSE 0]

\* An encode of the magnitude, the sign dropped.
Pack24Magnitude(trimmed) ==
    [n \in 1..(Len(trimmed) * 3) |-> ByteOf(Abs(trimmed[((n - 1) \div 3) + 1]), (n - 1) % 3)]

\* 24-bit encode: the three low bytes of s & 0xFFFFFFFF.
Pack24(trimmed) ==
    [n \in 1..(Len(trimmed) * 3) |-> ByteOf(trimmed[((n - 1) \div 3) + 1], (n - 1) % 3)]

\* A decode that completes a trailing partial group with zero bytes.
DecodePadded(audio_data, sample_width) ==
    LET padded == audio_data \o [j \in 1..((3 - (Len(audio_data) % 3)) % 3) |-> 0]
    IN IF sample_width = 3 THEN FromBytes(Unpack24(padded), 4, TRUE)
       ELSE FromBytes(audio_data, sample_width, sample_width # 1)

Decode(audio_data, sample_width) ==
    IF sample_width = 3 THEN FromBytes(Unpack24(audio_data), 4, TRUE)
    ELSE FromBytes(audio_data, sample_width, sample_width # 1)

Encode(trimmed, original_sample_width) ==
    IF original_sample_width = 3 THEN Pack24(trimmed)
    ELSE ToBytes(trimmed, original_sample_width)

\* ---------------------------------------------------------------- levels
\* calculate_db_level(sample, zero, max_val) > threshold_db, for threshold_db
\* = -20k: 20*log10(m / max_val) > -20k  <=>  m * 10^k > max_val  <=>
\* m > max_val \div 10^k for an integer m; a zero magnitude is -infinity dB.
LevelAbove(sample, zero, max_val, threshold_db) ==
    LET magnitude == Abs(sample - zero)
    IN magnitude > 0 /\ magnitude > max_val \div Pow10((-threshold_db) \div 20)

\* ---------------------------------------------------------------- zero crossing
\* The test of lines 26-27 and 35-36 on the pair (cur, other), zero_val = 0.
Crosses(cur, other) ==
    \/ cur >= 0 /\ other < 0
    \/ cur <= 0 /\ other > 0

RECURSIVE ForwardScan(_, _, _, _)
ForwardScan(samples, i, stop, position) ==
    IF i >= stop THEN position
    ELSE IF Crosses(At(samples, i), At(samples, i + 1)) THEN i
    ELSE ForwardScan(samples, i + 1, stop, position)

RECURSIVE BackwardScan(_, _, _, _)
BackwardScan(samples, i, min_pos, position) ==
    IF i <= min_pos THEN position
    ELSE IF i > 0 /\ i >= Len(samples) THEN IndexError
    ELSE IF i > 0 /\ Crosses(At(samples, i), At(samples, i - 1)) THEN i
    ELSE BackwardScan(samples, i - 1, min_pos, position)

\* A search whose backward scan starts one sample below the position.
FindZeroCrossingBelow(samples, position, direction, window) ==
    IF direction = "forward"
    THEN ForwardScan(samples, position, Min(position + window, Len(samples) - 1) - 1, position)
    ELSE BackwardScan(samples, position - 1, Max(0, position - window), position)

\* A search that returns the far edge of its window when no pair crosses.
FindZeroCrossingEdge(samples, position, direction, window) ==
    IF direction = "forward"
    THEN ForwardScan(samples, position, Min(position + window, Len(samples) - 1) - 1,
                     Min(position + window, Len(samples) - 1))
    ELSE BackwardScan(samples, position, Max(0, position - window),
                      Max(0, position - window))
FindZeroCrossing(samples, position, direction, window) ==
    IF direction = "forward"
    THEN ForwardScan(samples, position, Min(position + window, Len(samples) - 1) - 1, position)
    ELSE BackwardScan(samples, position, Max(0, position - window), position)

\* ---------------------------------------------------------------- end point
MinSamples(min_duration_halves, framerate) == (min_duration_halves * framerate) \div 2

WindowLoud(samples, i, zero, max_val, threshold_db, window_size) ==
    \E j \in i..(Min(i + window_size, Len(samples)) - 1) :
        LevelAbove(At(samples, j), zero, max_val, threshold_db)

\* The loop of line 50: the first i of len - window_size, ..., 1 whose window
\* is above the threshold, or 0 when the loop ends without one.
RECURSIVE WindowScan(_, _, _, _, _, _)
WindowScan(samples, i, zero, max_val, threshold_db, window_size) ==
    IF i <= 0 THEN 0
    ELSE IF WindowLoud(samples, i, zero, max_val, threshold_db, window_size) THEN i
    ELSE WindowScan(samples, i - 1, zero, max_val, threshold_db, window_size)

LoudWindowStart(samples, zero, max_val, threshold_db, window_size) ==
    WindowScan(samples, Len(samples) - window_size, zero, max_val, threshold_db, window_size)

\* Line 57: the end point before it is moved to a zero crossing.
TailedEndPoint(samples, i, window_size, min_samples) ==
    Min(i + window_size + min_samples, Len(samples))

FindEndPoint(samples, zero, max_val, threshold_db, window_size, min_samples) ==
    LET i == LoudWindowStart(samples, zero, max_val, threshold_db, window_size)
    IN IF i = 0 THEN Len(samples)
       ELSE FindZeroCrossing(samples, TailedEndPoint(samples, i, window_size, min_samples),
                             "backward", ZcWindow)

\* ---------------------------------------------------------------- trim steps
\* channel_samples[i % n_channels].append(sample): channel c, 0-based.
ChannelOf(samples, c, n_channels) ==
    LET count == Cardinality({i \in 0..(Len(samples) - 1) : i % n_channels = c})
    IN [k \in 1..count |-> At(samples, (k - 1) * n_channels + c)]

ChannelSamples(samples, n_channels) ==
    [c \in 1..n_channels |-> ChannelOf(samples, c - 1, n_channels)]

\* Lines 224-228: channel after channel, each cut to end_point.
Recombine(channel_samples, end_point) ==
    Flatten([c \in 1..Len(channel_samples) |->
                SubSeq(channel_samples[c], 1, Min(end_point, Len(channel_samples[c])))])

\* Line 238: samples[:end_point].
MonoSlice(samples, end_point) == SubSeq(samples, 1, Min(end_point, Len(samples)))

TrimmedLengthUndivided(trimmed, n_channels) == Len(trimmed)

\* Line 257.
TrimmedLength(trimmed, n_channels) == Len(trimmed) \div n_channels

ReductionUnguarded(original_length, trimmed_length) ==
    IF original_length = 0 THEN ZeroDivisionError
    ELSE ((original_length - trimmed_length) * 100) \div original_length

\* Line 258, in whole percent.
Reduction(original_length, trimmed_length) ==
    IF original_length > 0
    THEN ((original_length - trimmed_length) * 100) \div original_length
    ELSE 0

\* ---------------------------------------------------------------- state
VARIABLES
    sample_width,         \* wav_file.getsampwidth()
    n_channels,           \* wav_file.getnchannels()
    n_frames,             \* wav_file.getnframes()
    audio_data,           \* wav_file.readframes(n_frames), a sequence of bytes
    threshold_db,         \* argument
    min_duration_halves,  \* argument min_duration_sec, in half seconds
    pc,                   \* "start", "decoded", "reconciled", "snapped", "trimmed", "done", "failed"
    samples,              \* the decoded sample array
    channel_end_points,   \* find_end_point of each channel (of the one channel for mono)
    reconciled,           \* end_point before the final find_zero_crossing
    end_point,            \* end_point after it: the cut
    zc_calls,             \* the (samples, position) of every find_zero_crossing call made
    trimmed_samples,
    trimmed_length,
    reduction,
    output_data,          \* the bytes written to the output file
    output_written,       \* the output file was opened for writing
    zc_call,              \* one call of find_zero_crossing: samples, position, direction, window
    zc_result,
    zc_resnap,            \* what a second backward call, from zc_result, returned; -1 before it            \* what the call returned
    target_peak_db,       \* argument of normalize_audio_file
    peak,                 \* normalize_audio_file's peak
    scale_factor,         \* its scale_factor, <<numerator, denominator>> parts (see ScaleFactor)
    silent_warning,       \* "Warning: Audio contains only silence" was printed
    previous_peak,        \* peak of the output of an earlier normalize of this buffer, -1 if none
    roundtrip,            \* the result of converting a codec result back
    batch_tool,           \* the *_directory function running: "trim", "normalize" or "slice"
    directory,            \* the files of the directory: name -> the per-file function succeeds on it
    files,                \* the listing the batch loops over, in os.listdir's order
    file_index,           \* how many files of the listing the loop has processed
    success_count,
    written,              \* the output paths written so far, in order
    batch_result,         \* what the batch function returned: "none" while running, "true", "false"
    output_dir,           \* where the outputs go: "directory" (the input directory) or "other"
    processed,            \* the files handed to the per-file function so far, in order
    left_file,            \* join_mono_to_stereo: channels, width, rate and frames of the left file
    right_file,           \* the same of the right file
    stereo_file,          \* the output file of the join, <<>> until it is created
    bpm,                  \* slice_audio_file arguments
    bars_per_slice,
    framerate,            \* frame rate of the file to slice
    samples_per_slice,
    output_files,         \* the segments written: segment number and bytes
    audio_files,          \* rename_files_by_midi_notes: the sorted listing
    start_note,
    preview_only,
    overwrite,
    existing,             \* the listed files whose new path already exists
    rename_mapping,       \* (old file, note) pairs, in order
    renamed,              \* the files the renaming loop has handled, and how
    rename_result         \* "none", "true" or "false"

inputs == <<sample_width, n_channels, n_frames, audio_data, threshold_db, min_duration_halves>>
\* What one find_zero_crossing call, normalize_audio_file and the codec round
\* trip use besides; trim_audio_file leaves them alone.
zcVars == <<zc_call, zc_result, zc_resnap>>
normVars == <<target_peak_db, peak, scale_factor, silent_warning, previous_peak>>
codecVars == <<roundtrip>>
\* What the other tools (batch runs, join, slice, rename) use.
batchVars == <<batch_tool, output_dir, directory, files, file_index, success_count,
               processed, written, batch_result>>
joinVars == <<left_file, right_file, stereo_file>>
sliceVars == <<bpm, bars_per_slice, framerate, samples_per_slice, output_files>>
renameVars == <<audio_files, start_note, preview_only, overwrite, existing, rename_mapping,
                renamed, rename_result>>
toolVars == <<batchVars, joinVars, sliceVars, renameVars>>
\* The file one call reads and writes.
wavVars == <<sample_width, n_channels, n_frames, audio_data, samples, output_data,
             output_written>>
trimVars == <<threshold_db, min_duration_halves, channel_end_points, reconciled, end_point,
              zc_calls, trimmed_samples, trimmed_length, reduction>>
vars == <<sample_width, n_channels, n_frames, audio_data, threshold_db, min_duration_halves,
          pc, samples, channel_end_points, reconciled, end_point, zc_calls,
          trimmed_samples, trimmed_length, reduction, output_data, output_written,
          zcVars, normVars, codecVars, toolVars>>

ZcUnused == zc_call = <<>> /\ zc_result = 0 /\ zc_resnap = -1
NormUnused ==
    /\ target_peak_db = 0
    /\ peak = 0
    /\ scale_factor = <<>>
    /\ silent_warning = FALSE
    /\ previous_peak = -1
CodecUnused == roundtrip = <<>>
BatchUnused ==
    /\ batch_tool = "none"
    /\ directory = <<>>
    /\ files = <<>>
    /\ file_index = 0
    /\ success_count = 0
    /\ written = <<>>
    /\ batch_result = "none"
    /\ output_dir = "none"
    /\ processed = <<>>
JoinUnused == left_file = <<>> /\ right_file = <<>> /\ stereo_file = <<>>
SliceUnused ==
    /\ bpm = 0
    /\ bars_per_slice = 0
    /\ framerate = 0
    /\ samples_per_slice = 0
    /\ output_files = <<>>
RenameUnused ==
    /\ audio_files = <<>>
    /\ start_note = 0
    /\ preview_only = FALSE
    /\ overwrite = FALSE
    /\ existing = {}
    /\ rename_mapping = <<>>
    /\ renamed = <<>>
    /\ rename_result = "none"
ToolUnused == BatchUnused /\ JoinUnused /\ SliceUnused /\ RenameUnused
WavUnused ==
    /\ sample_width = 2
    /\ n_channels = 1
    /\ n_frames = 0
    /\ audio_data = <<>>
    /\ samples = <<>>
    /\ output_data = <<>>
    /\ output_written = FALSE
TrimUnused ==
    /\ threshold_db = 0
    /\ min_duration_halves = 0
    /\ channel_end_points = <<>>
    /\ reconciled = 0
    /\ end_point = 0
    /\ zc_calls = <<>>
    /\ trimmed_samples = <<>>
    /\ trimmed_length = 0
    /\ reduction = 0

\* Sample values of the inputs: one below the zero point, the zero point, and
\* the largest value of the width.
SampleValues(width) ==
    IF Supported(width) THEN {ZeroOf(width) - 1, ZeroOf(width), MaxValOf(width)} ELSE {0}

InputBytes(items, width) ==
    IF Supported(width) THEN ToBytes(items, width) ELSE [n \in 1..(Len(items) * width) |-> 0]

Init ==
    /\ sample_width \in SampleWidths
    /\ n_channels \in ChannelCounts
    /\ n_frames \in 0..MaxFrames
    /\ n_frames * n_channels <= MaxSamples
    /\ n_frames * n_channels * sample_width <= MaxBytes
    /\ \E items \in [1..(n_frames * n_channels) -> SampleValues(sample_width)] :
           audio_data = InputBytes(items, sample_width)
    /\ threshold_db \in Thresholds
    /\ min_duration_halves \in MinDurationHalves
    /\ pc = "start"
    /\ samples = <<>>
    /\ channel_end_points = <<>>
    /\ reconciled = 0
    /\ end_point = 0
    /\ zc_calls = <<>>
    /\ trimmed_samples = <<>>
    /\ trimmed_length = 0
    /\ reduction = 0
    /\ output_data = <<>>
    /\ output_written = FALSE
    /\ ZcUnused
    /\ NormUnused
    /\ CodecUnused
    /\ ToolUnused

zero == ZeroOf(sample_width)
max_val == MaxValOf(sample_width)
min_samples == MinSamples(min_duration_halves, Framerate)
channel_samples == ChannelSamples(samples, n_channels)

\* Lines 147-193: the width dispatch and the conversion to an array.
DecodeSamples ==
    /\ pc = "start"
    /\ IF Supported(sample_width)
       THEN /\ samples' = Decode(audio_data, sample_width)
            /\ pc' = "decoded"
       ELSE /\ samples' = samples
            /\ pc' = "failed"
    /\ UNCHANGED <<inputs, channel_end_points, reconciled, end_point, zc_calls,
                   trimmed_samples, trimmed_length, reduction, output_data, output_written,
                   zcVars, normVars, codecVars, toolVars>>

\* The arrays find_end_point is called on: every channel, or the whole array.
ScannedArrays == IF n_channels > 1 THEN channel_samples ELSE <<samples>>

EndPointOf(array) == FindEndPoint(array, zero, max_val, threshold_db, ScanWindow, min_samples)

\* The find_zero_crossing call find_end_point makes on an array, if any.
EndPointCall(array) ==
    LET i == LoudWindowStart(array, zero, max_val, threshold_db, ScanWindow)
    IN IF i = 0 THEN <<>>
       ELSE <<[samples |-> array,
               position |-> TailedEndPoint(array, i, ScanWindow, min_samples)]>>

\* Lines 202-211 and 232-233: find_end_point per channel, then the latest.
\* A raise in one call ends the loop: the later channels are not scanned.
FindEndPoints ==
    /\ pc = "decoded"
    /\ LET arrays == ScannedArrays
           points == [c \in 1..Len(arrays) |-> EndPointOf(arrays[c])]
           raised == {c \in 1..Len(arrays) : points[c] = IndexError}
           last   == IF raised = {} THEN Len(arrays)
                     ELSE CHOOSE c \in raised : \A d \in raised : c <= d
       IN /\ zc_calls' = zc_calls \o Flatten([c \in 1..last |-> EndPointCall(arrays[c])])
          /\ IF raised = {}
             THEN /\ channel_end_points' = points
                  /\ reconciled' = SeqMax(points)
                  /\ pc' = "reconciled"
             ELSE /\ channel_end_points' = SubSeq(points, 1, last - 1)
                  /\ reconciled' = reconciled
                  /\ pc' = "failed"
    /\ UNCHANGED <<inputs, samples, end_point, trimmed_samples, trimmed_length, reduction,
                   output_data, output_written,
                   zcVars, normVars, codecVars, toolVars>>

\* Lines 213-221 and 236: the final find_zero_crossing, on the first channel
\* for multi-channel input (guarded and clamped), on the array for mono.
SnapArray == IF n_channels > 1 THEN channel_samples[1] ELSE samples
SnapPosition ==
    IF n_channels > 1 THEN Min(reconciled, Len(channel_samples[1]) - 1) ELSE reconciled

SnapToZeroCrossing ==
    /\ pc = "reconciled"
    /\ IF n_channels > 1 /\ Len(channel_samples[1]) = 0
       THEN /\ end_point' = reconciled
            /\ zc_calls' = zc_calls
            /\ pc' = "snapped"
       ELSE LET crossing == FindZeroCrossing(SnapArray, SnapPosition, "backward", ZcWindow)
            IN /\ zc_calls' = Append(zc_calls, [samples |-> SnapArray, position |-> SnapPosition])
               /\ IF crossing = IndexError
                  THEN /\ end_point' = end_point
                       /\ pc' = "failed"
                  ELSE /\ end_point' = crossing
                       /\ pc' = "snapped"
    /\ UNCHANGED <<inputs, samples, channel_end_points, reconciled, trimmed_samples,
                   trimmed_length, reduction, output_data, output_written,
                   zcVars, normVars, codecVars, toolVars>>

\* Lines 223-228 and 238.
Truncate ==
    /\ pc = "snapped"
    /\ trimmed_samples' = IF n_channels > 1 THEN Recombine(channel_samples, end_point)
                                             ELSE MonoSlice(samples, end_point)
    /\ pc' = "trimmed"
    /\ UNCHANGED <<inputs, samples, channel_end_points, reconciled, end_point, zc_calls,
                   trimmed_length, reduction, output_data, output_written,
                   zcVars, normVars, codecVars, toolVars>>

\* Lines 240-268: encode, the reduction report, the output file.
WriteOutput ==
    /\ pc = "trimmed"
    /\ LET length == TrimmedLength(trimmed_samples, n_channels)
           percent == Reduction(n_frames, length)
       IN /\ trimmed_length' = length
          /\ IF percent = ZeroDivisionError
             THEN /\ pc' = "failed"
                  /\ UNCHANGED <<reduction, output_data, output_written>>
             ELSE /\ reduction' = percent
                  /\ output_data' = Encode(trimmed_samples, sample_width)
                  /\ output_written' = TRUE
                  /\ pc' = "done"
    /\ UNCHANGED <<inputs, samples, channel_end_points, reconciled, end_point, zc_calls,
                   trimmed_samples,
                   zcVars, normVars, codecVars, toolVars>>

Next ==
    \/ DecodeSamples
    \/ FindEndPoints
    \/ SnapToZeroCrossing
    \/ Truncate
    \/ WriteOutput

Spec == Init /\ [][Next]_vars

\* ---------------------------------------------------------------- normalize_audio_file
\* Longest sample array normalized.
MaxNormSamples == 3
\* target_peak_db values: whole powers of ten as linear gain (0.1, 1, 10).
TargetPeaks == {-20, 0, 20}
\* Sample values per width: the extremes, the zero point and its neighbour,
\* and one mid-range value. -2^31 is left out of the 32-bit values.
NormSampleValues(width) ==
    CASE width = 1 -> {0, 64, 128, 129, 255}
      [] width = 2 -> {-32768, -1, 0, 3440, 32767}
      [] width = 3 -> {-8388608, -1, 0, 242037, 8388607}
      [] width = 4 -> {-2147483647, -1, 0, 531951546, 2147483647}
      [] OTHER -> {0}

\* <<q, r>> with a * b = q * p + r and 0 <= r < p, for 0 <= a <= p, with no
\* intermediate above 2^31 - 1: directly when a * b fits, else with
\* p = c * a + e and b = k * c + d, so that a * b = k * p + a * d - k * e,
\* where a * d < p and k * e is the same problem with e < a.
RECURSIVE MulDiv(_, _, _)
MulDiv(a, b, p) ==
    IF a = 0 \/ b = 0 THEN <<0, 0>>
    ELSE IF b <= 2147483647 \div a THEN <<(a * b) \div p, (a * b) % p>>
    ELSE LET c == p \div a
             e == p % a
             k == b \div c
             d == b % c
             h == MulDiv(e, k, p)
         IN IF a * d >= h[2] THEN <<k - h[1], a * d - h[2]>>
            ELSE <<k - h[1] - 1, a * d + (p - h[2])>>

\* 10 ** (target_peak_db / 20.0) as numerator and denominator.
GainNum(db) == IF db >= 0 THEN Pow10(db \div 20) ELSE 1
GainDen(db) == IF db >= 0 THEN 1 ELSE Pow10((-db) \div 20)

\* A scale factor that is the gain of the target alone, whatever the peak.
ScaleFactorAbsolute(db, max_magnitude, peak_value) ==
    [num |-> GainNum(db), den |-> GainDen(db), max_val |-> 1, peak |-> 1]

\* The scale factor target_peak_linear / peak, kept as the exact ratio
\* (num * max_val) / (den * peak); 1.0 for a silent buffer.
ScaleFactor(db, max_magnitude, peak_value) ==
    IF peak_value = 0 THEN [num |-> 1, den |-> 1, max_val |-> 1, peak |-> 1]
    ELSE [num |-> GainNum(db), den |-> GainDen(db), max_val |-> max_magnitude,
          peak |-> peak_value]

\* The pairs <<max_val, peak>> of the sample values above for which the
\* double (max_val / peak) * peak falls below max_val, so that int() gives
\* max_val - 1; every other product of the values truncates as the exact one.
ShortProducts ==
    {<<32767, 3440>>, <<8388607, 242037>>, <<2147483647, 531951546>>}

\* int(a * scale) for 0 <= a <= scale.peak, capped at `cap`.
ScaledMagnitude(a, scale, cap) ==
    IF scale.num > 1
    THEN IF a >= ((scale.peak - 1) \div scale.num) + 1 THEN cap
         ELSE Min(MulDiv(a * scale.num, scale.max_val, scale.peak)[1], cap)
    ELSE IF a = scale.peak /\ scale.den = 1 /\ <<scale.max_val, scale.peak>> \in ShortProducts
         THEN Min(scale.max_val - 1, cap)
    ELSE Min(MulDiv(a, scale.max_val, scale.peak)[1] \div scale.den, cap)

\* int(): truncation toward zero of n / d, d > 0.
TruncDiv(n, d) == IF n >= 0 THEN n \div d ELSE -((-n) \div d)

\* A scaling that stores the unsigned value modulo 256 instead of clamping it.
ScaleSampleWrapped(sample, zero_point, max_magnitude, scale) ==
    IF zero_point = 0
    THEN LET m == ScaledMagnitude(Abs(sample), scale, max_magnitude)
         IN IF sample < 0 THEN -m ELSE m
    ELSE TruncDiv((sample - zero_point) * scale.num * scale.max_val
                      + zero_point * scale.den * scale.peak,
                  scale.den * scale.peak) % 256

\* Lines 85-86: int((sample - zero) * scale_factor + zero), clamped to
\* [-max_val, max_val], or to [0, max_val] for the unsigned width.
ScaleSample(sample, zero_point, max_magnitude, scale) ==
    IF zero_point = 0
    THEN LET m == ScaledMagnitude(Abs(sample), scale, max_magnitude)
         IN IF sample < 0 THEN -m ELSE m
    ELSE Max(Min(TruncDiv((sample - zero_point) * scale.num * scale.max_val
                              + zero_point * scale.den * scale.peak,
                          scale.den * scale.peak),
                 max_magnitude), 0)

\* Line 70: max(abs(s - zero) for s in samples), of a non-empty array.
PeakOf(array, zero_point) ==
    LET magnitudes == {Abs(array[k] - zero_point) : k \in 1..Len(array)}
    IN CHOOSE m \in magnitudes : \A n \in magnitudes : n <= m

InitNorm ==
    /\ sample_width \in SampleWidths
    /\ n_channels \in ChannelCounts
    /\ n_frames \in 0..MaxNormSamples
    /\ n_frames * n_channels <= MaxNormSamples
    /\ \E items \in [1..(n_frames * n_channels) -> NormSampleValues(sample_width)] :
           audio_data = InputBytes(items, sample_width)
    /\ target_peak_db \in TargetPeaks
    /\ pc = "norm_start"
    /\ samples = <<>>
    /\ peak = 0
    /\ scale_factor = <<>>
    /\ silent_warning = FALSE
    /\ previous_peak = -1
    /\ output_data = <<>>
    /\ output_written = FALSE
    /\ TrimUnused
    /\ ZcUnused
    /\ CodecUnused
    /\ ToolUnused

normInputs == <<sample_width, n_channels, n_frames, audio_data, target_peak_db>>

\* A dispatch whose last branch takes any other width as 32-bit.
NormDecodeAnyWidth ==
    /\ pc = "norm_start"
    /\ samples' = Decode(audio_data, IF Supported(sample_width) THEN sample_width ELSE 4)
    /\ pc' = "norm_decoded"
    /\ UNCHANGED <<normInputs, peak, scale_factor, silent_warning, output_data,
                   output_written, previous_peak, trimVars, zcVars, codecVars, toolVars>>

\* Lines 20-67: the width dispatch and the conversion to an array.
NormDecode ==
    /\ pc = "norm_start"
    /\ IF Supported(sample_width)
       THEN /\ samples' = Decode(audio_data, sample_width)
            /\ pc' = "norm_decoded"
       ELSE /\ samples' = samples
            /\ pc' = "norm_failed"
    /\ UNCHANGED <<normInputs, peak, scale_factor, silent_warning, output_data,
                   output_written, previous_peak, trimVars, zcVars, codecVars, toolVars>>

\* A scale factor computed without the peak == 0 guard: the division raises
\* ZeroDivisionError on a silent buffer.
NormFindPeakUnguarded ==
    /\ pc = "norm_decoded"
    /\ IF Len(samples) = 0 \/ PeakOf(samples, zero) = 0
       THEN /\ pc' = "norm_failed"
            /\ UNCHANGED <<peak, scale_factor, silent_warning>>
       ELSE /\ peak' = PeakOf(samples, zero)
            /\ silent_warning' = FALSE
            /\ scale_factor' = ScaleFactor(target_peak_db, max_val, peak')
            /\ pc' = "norm_peaked"
    /\ UNCHANGED <<normInputs, samples, output_data, output_written,
                   previous_peak, trimVars, zcVars, codecVars, toolVars>>

\* Lines 69-80: the peak, the target and the scale factor. max() of an empty
\* array raises ValueError, caught at line 114.
NormFindPeak ==
    /\ pc = "norm_decoded"
    /\ IF Len(samples) = 0
       THEN /\ pc' = "norm_failed"
            /\ UNCHANGED <<peak, scale_factor, silent_warning>>
       ELSE /\ peak' = PeakOf(samples, zero)
            /\ silent_warning' = (peak' = 0)
            /\ scale_factor' = ScaleFactor(target_peak_db, max_val, peak')
            /\ pc' = "norm_peaked"
    /\ UNCHANGED <<normInputs, samples, output_data, output_written,
                   previous_peak, trimVars, zcVars, codecVars, toolVars>>

\* Lines 82-86: every sample scaled and clamped in place.
NormScale ==
    /\ pc = "norm_peaked"
    /\ samples' = [k \in 1..Len(samples) |->
                      ScaleSample(samples[k], zero, max_val, scale_factor)]
    /\ pc' = "norm_scaled"
    /\ UNCHANGED <<normInputs, peak, scale_factor, silent_warning, output_data,
                   output_written, previous_peak, trimVars, zcVars, codecVars, toolVars>>

\* Lines 88-112: encode and write the output file.
NormWrite ==
    /\ pc = "norm_scaled"
    /\ output_data' = Encode(samples, sample_width)
    /\ output_written' = TRUE
    /\ pc' = "norm_done"
    /\ UNCHANGED <<normInputs, samples, peak, scale_factor, silent_warning,
                   previous_peak, trimVars, zcVars, codecVars, toolVars>>

\* normalize_audio_file called again on the file the last call wrote, with the
\* same target: the output bytes are the next input.
NormAgain ==
    /\ pc = "norm_done"
    /\ previous_peak = -1
    /\ previous_peak' = PeakOf(Decode(output_data, sample_width), zero)
    /\ audio_data' = output_data
    /\ samples' = <<>>
    /\ peak' = 0
    /\ scale_factor' = <<>>
    /\ silent_warning' = FALSE
    /\ output_data' = <<>>
    /\ output_written' = FALSE
    /\ pc' = "norm_start"
    /\ UNCHANGED <<sample_width, n_channels, n_frames, target_peak_db,
                   trimVars, zcVars, codecVars, toolVars>>

NextNorm == NormDecode \/ NormFindPeak \/ NormScale \/ NormWrite

SpecNorm == InitNorm /\ [][NextNorm]_vars

\* The same, with a second call on the output of the first.
SpecNormTwice == InitNorm /\ [][NextNorm \/ NormAgain]_vars

\* Both operations, each on its own inputs.
SpecTrimNorm == (Init \/ InitNorm) /\ [][Next \/ NextNorm]_vars

\* ---------------------------------------------------------------- one call of find_zero_crossing
\* Longest array of a find_zero_crossing call.
MaxZcLen == 5
\* Largest window of a find_zero_crossing call.
MaxZcWindow == 3
\* Sample values of the arrays: below, at and above zero.
ZcValues == {-1, 0, 1}

ZcCalls ==
    {[samples |-> array, position |-> position, direction |-> direction, window |-> window] :
        array \in UNION {[1..n -> ZcValues] : n \in 1..MaxZcLen},
        position \in 0..(MaxZcLen - 1),
        direction \in {"forward", "backward"},
        window \in 1..MaxZcWindow}

\* Every array, every position inside it, both directions, every window.
InitZC ==
    /\ zc_call \in {call \in ZcCalls : call.position < Len(call.samples)}
    /\ zc_result = 0
    /\ zc_resnap = -1
    /\ pc = "zc_call"
    /\ sample_width = 2
    /\ n_channels = 1
    /\ n_frames = 0
    /\ audio_data = <<>>
    /\ samples = <<>>
    /\ output_data = <<>>
    /\ output_written = FALSE
    /\ TrimUnused
    /\ NormUnused
    /\ CodecUnused
    /\ ToolUnused

CallFindZeroCrossing ==
    /\ pc = "zc_call"
    /\ zc_result' = FindZeroCrossing(zc_call.samples, zc_call.position, zc_call.direction,
                                     zc_call.window)
    /\ pc' = "zc_returned"
    /\ UNCHANGED <<sample_width, n_channels, n_frames, audio_data, samples, output_data,
                   output_written, zc_call, zc_resnap, trimVars, normVars, codecVars,
                   toolVars>>

NextZC == CallFindZeroCrossing

SpecZC == InitZC /\ [][NextZC]_vars

\* Lines 59-62 then 231-238: the trimmer searches backward again, from the
\* position find_end_point's search returned, on the same samples.
SnapAgain ==
    /\ pc = "zc_returned"
    /\ zc_call.direction = "backward"
    /\ zc_result # IndexError
    /\ zc_resnap' = FindZeroCrossing(zc_call.samples, zc_result, "backward", zc_call.window)
    /\ pc' = "zc_resnapped"
    /\ UNCHANGED <<sample_width, n_channels, n_frames, audio_data, samples, output_data,
                   output_written, zc_call, zc_result, trimVars, normVars, codecVars,
                   toolVars>>

SpecZCTwice == InitZC /\ [][NextZC \/ SnapAgain]_vars

\* ---------------------------------------------------------------- the 24-bit codec alone
\* Longest byte buffer decoded, and longest sample array encoded.
MaxCodecBytes == 6
MaxCodecSamples == 2
CodecByteValues == {0, 1, 127, 128, 255}
\* 24-bit samples: both extremes, and values around each byte boundary.
CodecSampleValues == {-8388608, -8388607, -65536, -256, -1, 0, 1, 255, 256, 65535, 8388607}

\* Either a byte buffer of any length to decode then encode, or a sample array
\* to encode then decode.
InitCodec ==
    /\ \/ /\ pc = "codec_bytes"
          /\ audio_data \in UNION {[1..n -> CodecByteValues] : n \in 0..MaxCodecBytes}
          /\ samples = <<>>
       \/ /\ pc = "codec_samples"
          /\ audio_data = <<>>
          /\ samples \in UNION {[1..n -> CodecSampleValues] : n \in 0..MaxCodecSamples}
    /\ sample_width = 3
    /\ n_channels = 1
    /\ n_frames = 0
    /\ output_data = <<>>
    /\ output_written = FALSE
    /\ roundtrip = <<>>
    /\ TrimUnused
    /\ NormUnused
    /\ ZcUnused
    /\ ToolUnused

codecFixed ==
    <<sample_width, n_channels, n_frames, output_written, trimVars, normVars, zcVars, toolVars>>

DecodeBytes ==
    /\ pc = "codec_bytes"
    /\ samples' = Decode(audio_data, sample_width)
    /\ pc' = "codec_decoded"
    /\ UNCHANGED <<audio_data, output_data, roundtrip, codecFixed>>

EncodeDecoded ==
    /\ pc = "codec_decoded"
    /\ roundtrip' = Encode(samples, sample_width)
    /\ pc' = "codec_bytes_done"
    /\ UNCHANGED <<audio_data, samples, output_data, codecFixed>>

EncodeSamples ==
    /\ pc = "codec_samples"
    /\ output_data' = Encode(samples, sample_width)
    /\ pc' = "codec_encoded"
    /\ UNCHANGED <<audio_data, samples, roundtrip, codecFixed>>

DecodeEncoded ==
    /\ pc = "codec_encoded"
    /\ roundtrip' = Decode(output_data, sample_width)
    /\ pc' = "codec_samples_done"
    /\ UNCHANGED <<audio_data, samples, output_data, codecFixed>>

NextCodec == DecodeBytes \/ EncodeDecoded \/ EncodeSamples \/ DecodeEncoded

SpecCodec == InitCodec /\ [][NextCodec]_vars


\* ---------------------------------------------------------------- the *_directory batch functions
\* Most files in a directory before a run, and most tool suffixes a file
\* name carries before a run.
MaxFiles == 2
MaxSuffixes == 1
BaseNames == {"a", "b"}
BatchTools == {"trim", "normalize", "slice"}

\* A file name is its base name followed by the suffixes appended before the
\* extension: "a_normalized.wav" is <<"a", "_normalized">>.  A run of the
\* slice tool names its segments "<stem>_01.wav", "<stem>_02.wav", ...; the
\* model keeps the first one.
SuffixOf(tool) ==
    CASE tool = "trim" -> "_trimmed"
      [] tool = "normalize" -> "_normalized"
      [] OTHER -> "_01"

PlainName(tool, base) ==
    IF tool = "slice" THEN <<base, "_stereo">> ELSE <<base>>

RECURSIVE Suffixed(_, _, _)
Suffixed(name, suffix, k) ==
    IF k = 0 THEN name ELSE Append(Suffixed(name, suffix, k - 1), suffix)

\* The names a directory can hold before a run: each base name plain, or as
\* earlier runs of the same tool left it.
NamesOf(tool) ==
    {Suffixed(PlainName(tool, base), SuffixOf(tool), k) :
        base \in BaseNames, k \in 0..MaxSuffixes}

\* A directory maps each file name in it to whether the per-file function
\* succeeds on that file's content.
Directories(tool) ==
    UNION {[S -> BOOLEAN] : S \in {T \in SUBSET NamesOf(tool) : Cardinality(T) <= MaxFiles}}

\* The listing filter: every name of the model ends in ".wav", which is all
\* trim_directory and normalize_directory ask for; slice_directory asks for
\* "_stereo.wav".
Listed(tool, name) ==
    tool = "slice" => name[Len(name)] = "_stereo"

\* os.listdir returns the names in arbitrary order.
Orders(S) ==
    {f \in [1..Cardinality(S) -> S] : \A i, j \in 1..Cardinality(S) : f[i] = f[j] => i = j}

\* The output path of one file: the same stem with the tool's suffix, in the
\* output directory.
OutputPath(tool, dir, name) ==
    [dir |-> dir, name |-> Append(name, SuffixOf(tool))]

InitBatch ==
    /\ pc = "batch_start"
    /\ batch_tool \in BatchTools
    /\ output_dir \in (IF batch_tool = "trim" THEN {"directory", "other"} ELSE {"directory"})
    /\ directory \in Directories(batch_tool)
    /\ files = <<>>
    /\ file_index = 0
    /\ success_count = 0
    /\ processed = <<>>
    /\ written = <<>>
    /\ batch_result = "none"
    /\ WavUnused /\ TrimUnused /\ ZcUnused /\ NormUnused /\ CodecUnused
    /\ JoinUnused /\ SliceUnused /\ RenameUnused

batchFixed == <<wavVars, trimVars, zcVars, normVars, codecVars, joinVars, sliceVars, renameVars>>

\* files = [f for f in os.listdir(directory) if ...]; if not files: return False
ListFiles ==
    /\ pc = "batch_start"
    /\ \E order \in Orders({name \in DOMAIN directory : Listed(batch_tool, name)}) :
          /\ files' = order
          /\ IF Len(order) = 0
             THEN pc' = "batch_returned" /\ batch_result' = "false"
             ELSE pc' = "batch_loop" /\ batch_result' = batch_result
    /\ UNCHANGED <<batch_tool, output_dir, directory, file_index, success_count,
                   processed, written, batchFixed>>

\* One pass of the loop that stops at the first file that fails.
ProcessFileStopping ==
    /\ pc = "batch_loop"
    /\ file_index < Len(files)
    /\ LET file == files[file_index + 1]
           out == OutputPath(batch_tool, output_dir, file)
       IN /\ processed' = Append(processed, file)
          /\ file_index' = file_index + 1
          /\ IF directory[file]
             THEN /\ success_count' = success_count + 1
                  /\ written' = Append(written, out)
                  /\ directory' = IF output_dir = "directory"
                                  THEN [name \in DOMAIN directory \cup {out.name} |->
                                           IF name = out.name THEN TRUE ELSE directory[name]]
                                  ELSE directory
                  /\ UNCHANGED <<pc, batch_result>>
             ELSE /\ pc' = "batch_returned"
                  /\ batch_result' = "false"
                  /\ UNCHANGED <<success_count, written, directory>>
    /\ UNCHANGED <<batch_tool, output_dir, files, batchFixed>>

\* One pass of the loop: the per-file function is called on the next listed
\* file, writes the output file when it succeeds, and its result is counted.
ProcessFile ==
    /\ pc = "batch_loop"
    /\ file_index < Len(files)
    /\ LET file == files[file_index + 1]
           out == OutputPath(batch_tool, output_dir, file)
       IN /\ processed' = Append(processed, file)
          /\ file_index' = file_index + 1
          /\ IF directory[file]
             THEN /\ success_count' = success_count + 1
                  /\ written' = Append(written, out)
                  /\ directory' = IF output_dir = "directory"
                                  THEN [name \in DOMAIN directory \cup {out.name} |->
                                           IF name = out.name THEN TRUE ELSE directory[name]]
                                  ELSE directory
             ELSE UNCHANGED <<success_count, written, directory>>
    /\ UNCHANGED <<pc, batch_result, batch_tool, output_dir, files, batchFixed>>

\* return success_count > 0
ReturnBatch ==
    /\ pc = "batch_loop"
    /\ file_index = Len(files)
    /\ batch_result' = IF success_count > 0 THEN "true" ELSE "false"
    /\ pc' = "batch_returned"
    /\ UNCHANGED <<batch_tool, output_dir, directory, files, file_index, success_count,
                   processed, written, batchFixed>>

NextBatch == ListFiles \/ ProcessFile \/ ReturnBatch

SpecBatch == InitBatch /\ [][NextBatch]_vars


\* ---------------------------------------------------------------- join_mono_to_stereo
\* Most bytes of frame data in one input file of the join.
MaxJoinBytes == 4
JoinByteValues == {1, 2}
JoinWidths == {1, 2}
JoinChannels == {1, 2}
JoinRates == {Framerate, 2 * Framerate}

\* What wave.open gives of an input file: the header fields and the bytes
\* readframes(getnframes()) returns.
JoinFiles ==
    {[n_channels |-> c, sampwidth |-> w, framerate |-> r, frames |-> bytes] :
        c \in JoinChannels, w \in JoinWidths, r \in JoinRates,
        bytes \in UNION {[1..n -> JoinByteValues] : n \in 0..MaxJoinBytes}}

\* The interleaving that takes one byte from each side at a time.
InterleaveBytewise(frames_left, frames_right, sampwidth) ==
    LET min_length == Min(Len(frames_left), Len(frames_right))
    IN Flatten([k \in 1..min_length |-> <<frames_left[k], frames_right[k]>>])

\* Lines 31-40: both sides cut to the shorter length in bytes, then for every
\* whole sample one sample of the left and one of the right.
Interleave(frames_left, frames_right, sampwidth) ==
    LET min_length == Min(Len(frames_left), Len(frames_right))
        starts == {i \in 0..(min_length - 1) :
                      i % sampwidth = 0 /\ i + sampwidth <= min_length}
    IN Flatten([k \in 1..Cardinality(starts) |->
                   SubSeq(frames_left, (k - 1) * sampwidth + 1, k * sampwidth)
                   \o SubSeq(frames_right, (k - 1) * sampwidth + 1, k * sampwidth)])

InitJoin ==
    /\ pc = "join_start"
    /\ left_file \in JoinFiles
    /\ right_file \in JoinFiles
    /\ stereo_file = <<>>
    /\ WavUnused /\ TrimUnused /\ ZcUnused /\ NormUnused /\ CodecUnused
    /\ BatchUnused /\ SliceUnused /\ RenameUnused

joinFixed == <<wavVars, trimVars, zcVars, normVars, codecVars, batchVars, sliceVars, renameVars>>

\* join_mono_to_stereo(left_file, right_file, output_file)
JoinMonoToStereo ==
    /\ pc = "join_start"
    /\ IF left_file.n_channels # 1 \/ right_file.n_channels # 1
       THEN pc' = "join_failed" /\ stereo_file' = stereo_file
       ELSE IF left_file.framerate # right_file.framerate
               \/ left_file.sampwidth # right_file.sampwidth
       THEN pc' = "join_failed" /\ stereo_file' = stereo_file
       ELSE /\ stereo_file' = [n_channels |-> 2,
                               sampwidth |-> left_file.sampwidth,
                               framerate |-> left_file.framerate,
                               frames |-> Interleave(left_file.frames, right_file.frames,
                                                     left_file.sampwidth)]
            /\ pc' = "join_done"
    /\ UNCHANGED <<left_file, right_file, joinFixed>>


NextJoin == JoinMonoToStereo

SpecJoin == InitJoin /\ [][NextJoin]_vars


\* ---------------------------------------------------------------- slice_audio_file
\* Longest input of the slicer, in frames and in bytes.
MaxSliceFrames == 3
MaxSliceBytes == 6
SliceByteValues == {1, 2}
SliceBpms == {0, 60, 120, 240, 480}
SliceBars == {1, 2}
SliceRates == {1, 2}

\* Lines 19-21: int(60.0 / bpm * 4 * bars_per_slice * framerate); the division
\* raises ZeroDivisionError for bpm = 0.
SamplesPerSlice(tempo, bars, rate) ==
    IF tempo = 0 THEN ZeroDivisionError ELSE (240 * bars * rate) \div tempo

\* The segment count that drops an incomplete last segment.
SegmentCountFloor(frames, per_slice) ==
    IF per_slice = 0 THEN ZeroDivisionError ELSE frames \div per_slice

\* Line 28: math.ceil(n_frames / samples_per_slice).
SegmentCount(frames, per_slice) ==
    IF per_slice = 0 THEN ZeroDivisionError ELSE (frames + per_slice - 1) \div per_slice

\* audio_data[start_byte:end_byte]: a slice stops at the end of the data.
ByteSlice(data, start_byte, end_byte) ==
    SubSeq(data, Min(start_byte, Len(data)) + 1, Min(end_byte, Len(data)))

\* Lines 35-44: the data of segment i, 0-based.
SegmentData(data, i, per_slice, frames, bytes_per_frame) ==
    ByteSlice(data, i * per_slice * bytes_per_frame,
              Min((i + 1) * per_slice, frames) * bytes_per_frame)

\* Lines 33-62: the files written, in order; empty segments are skipped.
RECURSIVE Segments(_, _, _, _, _, _)
Segments(data, i, count, per_slice, frames, bytes_per_frame) ==
    IF i >= count THEN <<>>
    ELSE LET segment_data == SegmentData(data, i, per_slice, frames, bytes_per_frame)
             rest == Segments(data, i + 1, count, per_slice, frames, bytes_per_frame)
         IN IF Len(segment_data) = 0 THEN rest
            ELSE <<[segment_number |-> i + 1, frames |-> segment_data]>> \o rest

\* The input file: its header and the frames readframes returns, which are
\* fewer than the header says when the file was cut short.
InitSlice ==
    /\ pc = "slice_start"
    /\ sample_width \in {1, 2}
    /\ n_channels \in ChannelCounts
    /\ n_frames \in 0..MaxSliceFrames
    /\ n_frames * n_channels * sample_width <= MaxSliceBytes
    /\ \E read \in 0..n_frames :
          audio_data \in [1..(read * n_channels * sample_width) -> SliceByteValues]
    /\ bpm \in SliceBpms
    /\ bars_per_slice \in SliceBars
    /\ framerate \in SliceRates
    /\ samples_per_slice = 0
    /\ output_files = <<>>
    /\ samples = <<>> /\ output_data = <<>> /\ output_written = FALSE
    /\ TrimUnused /\ ZcUnused /\ NormUnused /\ CodecUnused
    /\ BatchUnused /\ JoinUnused /\ RenameUnused

sliceFixed == <<wavVars, trimVars, zcVars, normVars, codecVars, batchVars, joinVars, renameVars>>

\* slice_audio_file(input_file, output_prefix, bpm, bars_per_slice)
SliceAudioFile ==
    /\ pc = "slice_start"
    /\ LET per_slice == SamplesPerSlice(bpm, bars_per_slice, framerate)
           count == SegmentCount(n_frames, per_slice)
       IN IF per_slice = ZeroDivisionError
          THEN pc' = "slice_failed" /\ UNCHANGED <<samples_per_slice, output_files>>
          ELSE IF count = ZeroDivisionError
          THEN /\ pc' = "slice_failed"
               /\ samples_per_slice' = per_slice
               /\ output_files' = output_files
          ELSE /\ pc' = "slice_done"
               /\ samples_per_slice' = per_slice
               /\ output_files' = Segments(audio_data, 0, count, per_slice, n_frames,
                                           n_channels * sample_width)
    /\ UNCHANGED <<bpm, bars_per_slice, framerate, sliceFixed>>

NextSlice == SliceAudioFile

SpecSlice == InitSlice /\ [][NextSlice]_vars


\* ---------------------------------------------------------------- rename_files_by_midi_notes
\* Most audio files in the directory to rename.
MaxRenameFiles == 3
\* Line 70: the highest MIDI note.
MidiMax == 127
\* File names, in their sort order.
RenameNames == 1..MaxRenameFiles
StartNotes == {35} \cup ((MidiMax - 2)..(MidiMax + 1))

\* audio_files.sort()
RECURSIVE Sorted(_)
Sorted(S) ==
    IF S = {} THEN <<>>
    ELSE LET least == CHOOSE x \in S : \A y \in S : x <= y
         IN <<least>> \o Sorted(S \ {least})

\* The check that lets one note past the last MIDI note through.
NotesExceededLate(first_note, count) == first_note + count - 1 > MidiMax + 1

\* Line 70.
NotesExceeded(first_note, count) == first_note + count - 1 > MidiMax

\* Lines 74-98: the i-th file gets current_note, which starts at start_note
\* and goes up by one per file.
RenameMapping(listing, first_note) ==
    [i \in 1..Len(listing) |-> [old_file |-> listing[i], note |-> first_note + i - 1]]

\* The batch variables hold the input directory (whether it is a directory,
\* and the audio files in it) and whether output_dir is the input directory.
InitRename ==
    /\ pc = "rename_start"
    /\ directory \in {[isdir |-> FALSE, audio |-> {}]}
                     \cup {[isdir |-> TRUE, audio |-> S] : S \in SUBSET RenameNames}
    /\ output_dir \in {"directory", "other"}
    /\ start_note \in StartNotes
    /\ preview_only \in BOOLEAN
    /\ overwrite \in BOOLEAN
    /\ existing \in SUBSET RenameNames
    /\ audio_files = <<>>
    /\ rename_mapping = <<>>
    /\ renamed = <<>>
    /\ rename_result = "none"
    /\ batch_tool = "none" /\ files = <<>> /\ file_index = 0 /\ success_count = 0
    /\ processed = <<>> /\ written = <<>> /\ batch_result = "none"
    /\ WavUnused /\ TrimUnused /\ ZcUnused /\ NormUnused /\ CodecUnused
    /\ JoinUnused /\ SliceUnused

renameFixed == <<wavVars, trimVars, zcVars, normVars, codecVars, batchVars, joinVars, sliceVars,
                 start_note, preview_only, overwrite>>

\* Lines 60-98 and 126-127: the listing, the note check, the mapping, and the
\* return of a preview.
ListAndMap ==
    /\ pc = "rename_start"
    /\ IF ~directory.isdir
       THEN /\ rename_result' = "false"
            /\ pc' = "rename_returned"
            /\ UNCHANGED <<audio_files, rename_mapping>>
       ELSE /\ audio_files' = Sorted(directory.audio)
            /\ IF NotesExceeded(start_note, Len(audio_files'))
               THEN /\ rename_result' = "false"
                    /\ pc' = "rename_returned"
                    /\ rename_mapping' = rename_mapping
               ELSE /\ rename_mapping' = RenameMapping(audio_files', start_note)
                    /\ IF preview_only
                       THEN rename_result' = "true" /\ pc' = "rename_returned"
                       ELSE rename_result' = rename_result /\ pc' = "rename_loop"
    /\ UNCHANGED <<existing, renamed, renameFixed>>

\* Lines 103-119: one pass of the renaming loop.  An existing new path is
\* skipped unless overwrite is set; the copy or the rename can fail, which is
\* reported and passed over.
RenameOne ==
    /\ pc = "rename_loop"
    /\ Len(renamed) < Len(rename_mapping)
    /\ LET entry == rename_mapping[Len(renamed) + 1]
       IN IF entry.old_file \in existing /\ ~overwrite
          THEN /\ renamed' = Append(renamed, [old_file |-> entry.old_file, note |-> entry.note,
                                              how |-> "skipped"])
               /\ existing' = existing
          ELSE \E how \in {IF output_dir = "other" THEN "copied" ELSE "renamed", "error"} :
                  /\ renamed' = Append(renamed, [old_file |-> entry.old_file,
                                                 note |-> entry.note, how |-> how])
                  /\ existing' = IF how = "error" THEN existing
                                 ELSE existing \cup {entry.old_file}
    /\ UNCHANGED <<pc, audio_files, rename_mapping, rename_result, renameFixed>>

\* Line 121.
RenameReturn ==
    /\ pc = "rename_loop"
    /\ Len(renamed) = Len(rename_mapping)
    /\ rename_result' = "true"
    /\ pc' = "rename_returned"
    /\ UNCHANGED <<audio_files, rename_mapping, renamed, existing, renameFixed>>

NextRename == ListAndMap \/ RenameOne \/ RenameReturn

SpecRename == InitRename /\ [][NextRename]_vars

\* ================================================================ properties
\* The decoded input, at every pc.
InputSamples == IF Supported(sample_width) THEN Decode(audio_data, sample_width) ELSE <<>>
InputChannel(c) == ChannelOf(InputSamples, c, n_channels)
Centered(array) == [k \in 1..Len(array) |-> array[k] - zero]
LoudAt(array, f) == LevelAbove(At(array, f), zero, max_val, threshold_db)
LoudFrames(array) == {f \in 0..(Len(array) - 1) : LoudAt(array, f)}
\* The last frame of the array above the threshold, -1 when there is none.
LastLoud(array) ==
    IF LoudFrames(array) = {} THEN -1
    ELSE CHOOSE f \in LoudFrames(array) : \A g \in LoudFrames(array) : g <= f
\* The frames written to the output file.
OutputFrames == Len(output_data) \div (sample_width * n_channels)
\* The zero crossings of an array within `window` samples at or before r.
CrossingsBefore(array, r, window) ==
    {i \in 1..(Len(array) - 1) :
        /\ i <= r
        /\ i > r - window
        /\ Crosses(At(array, i), At(array, i - 1))}
\* The nearest of them, r itself when there is none.
NearestCrossing(array, r, window) ==
    LET found == CrossingsBefore(array, r, window)
    IN IF found = {} THEN r ELSE CHOOSE i \in found : \A j \in found : j <= i

\* C1: a multi-channel trim to cut frame k writes k frames in frame-major
\* order: output[f*C + c] = input[f*C + c] for every f < k and channel c.
C1_InterleavedOutput ==
    (pc = "done" /\ n_channels >= 2) =>
        /\ Len(trimmed_samples) = end_point * n_channels
        /\ \A f \in 0..(end_point - 1) : \A c \in 0..(n_channels - 1) :
               At(trimmed_samples, f * n_channels + c) = At(samples, f * n_channels + c)

\* C2: a mono 16-bit buffer of constant full scale, threshold -60 dB, any
\* tail: the trim does not fail and keeps every frame.
C2_LoudToneUntrimmed ==
    (/\ n_channels = 1 /\ sample_width = 2 /\ n_frames >= 1 /\ threshold_db = -60
     /\ \A k \in 1..Len(InputSamples) : InputSamples[k] = MaxValOf(2)) =>
        /\ pc # "failed"
        /\ pc = "done" => trimmed_length = n_frames

\* C3: a non-empty buffer with no sample above the threshold: the trim does
\* not fail and writes every frame unchanged.
C3_SilenceUntouched ==
    (Supported(sample_width) /\ n_frames >= 1 /\ LoudFrames(InputSamples) = {}) =>
        /\ pc # "failed"
        /\ pc = "done" =>
              /\ trimmed_length = n_frames
              /\ Decode(output_data, sample_width) = InputSamples

\* C4: every frame at which some channel is above the threshold is below the
\* final cut.
C4_AudibleRetained ==
    pc = "done" =>
        \A c \in 0..(n_channels - 1) : \A f \in LoudFrames(InputChannel(c)) : end_point > f

\* C5: a non-empty buffer shorter than the scan window, or shorter than the
\* tail: the trim does not fail.
C5_ShortBufferSucceeds ==
    (/\ Supported(sample_width) /\ n_frames >= 1
     /\ (n_frames < ScanWindow \/ min_samples > n_frames)) =>
        pc # "failed"

\* C6: a successful trim reports and writes at most the original frame count.
C6_TrimMonotonic ==
    pc = "done" => (trimmed_length <= n_frames /\ OutputFrames <= n_frames)

\* A stereo trim that found the end of the signal in both channels and cut
\* the silence after it.
C6_Witness ==
    /\ pc = "done" /\ n_channels = 2
    /\ LoudFrames(InputChannel(0)) # {} /\ LoudFrames(InputChannel(1)) # {}
    /\ reconciled < n_frames
    /\ 0 < trimmed_length /\ trimmed_length < n_frames
    /\ OutputFrames = trimmed_length

\* C7: a buffer of zero frames: the trim does not fail, writes no frame and
\* reports a reduction of 0.
C7_EmptyInput ==
    (Supported(sample_width) /\ n_frames = 0) =>
        /\ pc # "failed"
        /\ pc = "done" =>
              (trimmed_length = 0 /\ output_data = <<>> /\ reduction = 0 /\ output_written)

\* An empty 24-bit stereo file, trimmed and written.
C7_Witness ==
    /\ pc = "done" /\ n_frames = 0 /\ n_channels = 2 /\ sample_width = 3
    /\ output_written /\ reduction = 0

\* C8: two channels, no tail, channel 1 above the threshold later than
\* channel 0: the reconciled cut is channel 1's end point and the final cut is
\* the nearest zero crossing of channel 0 at or before it.
C8_LatestChannelWins ==
    (/\ pc = "done" /\ n_channels = 2 /\ min_samples = 0
     /\ LastLoud(InputChannel(1)) > LastLoud(InputChannel(0))) =>
        /\ reconciled = channel_end_points[2]
        /\ end_point = NearestCrossing(Centered(InputChannel(0)), channel_end_points[2], ZcWindow)

\* C9: the final cut c and the reconciled cut r: c <= r, c is the nearest
\* zero crossing of channel 0 within the window at or before r, and c = r when
\* there is none.
C9_SnapRelation ==
    pc \in {"snapped", "trimmed", "done"} =>
        /\ end_point <= reconciled
        /\ end_point = NearestCrossing(Centered(InputChannel(0)), reconciled, ZcWindow)

\* C10: for 8-bit input every find_zero_crossing call gets the samples
\* relative to the zero point 128, so the cut is the one found on them.
C10_ZeroCenteredCalls ==
    sample_width = 1 =>
        /\ \A k \in 1..Len(zc_calls) :
               \E c \in 0..(n_channels - 1) :
                   zc_calls[k].samples = Centered(InputChannel(c))
        /\ (pc \in {"snapped", "trimmed", "done"} /\ Len(InputChannel(0)) > 0) =>
               end_point = FindZeroCrossing(Centered(SnapArray), SnapPosition,
                                            "backward", ZcWindow)

\* ---------------------------------------------------------------- find_zero_crossing
ZcLen == Len(zc_call.samples)
ZcAt(i) == At(zc_call.samples, i)
\* One sample of the pair is 0 and the other is not.
Touches(a, b) == (a = 0 /\ b # 0) \/ (a # 0 /\ b = 0)
\* The first indices i of the pairs (i, i+1) that lie within the window after
\* the position and within the array, the last sample of either included.
ForwardPairs ==
    {i \in 0..(ZcLen - 2) :
        i >= zc_call.position /\ i + 1 <= Min(zc_call.position + zc_call.window, ZcLen - 1)}
\* The first indices of the pairs the forward loop tests, and the indices i of
\* the pairs (i, i-1) the backward loop tests.
ForwardTested ==
    {i \in 0..(ZcLen - 2) :
        i >= zc_call.position /\ i < Min(zc_call.position + zc_call.window, ZcLen - 1) - 1}
BackwardTested ==
    {i \in 1..(ZcLen - 1) :
        i <= zc_call.position /\ i > Max(0, zc_call.position - zc_call.window)}
Lowest(S) == CHOOSE i \in S : \A j \in S : i <= j
Highest(S) == CHOOSE i \in S : \A j \in S : j <= i

\* C11: a forward search returns the smallest i >= position whose pair
\* (i, i+1) crosses zero, over every pair within the window and the array, the
\* pair ending at the last sample of either included.
C11_ForwardFindsFirst ==
    (pc = "zc_returned" /\ zc_call.direction = "forward") =>
        LET found == {i \in ForwardPairs : Crosses(ZcAt(i), ZcAt(i + 1))}
        IN found # {} => zc_result = Lowest(found)

\* C12: a pair of the searched range with exactly one sample 0 counts as a
\* crossing, whichever of the two is 0, in both directions: the search stops
\* at the first tested pair that crosses or touches zero.
C12_ZeroTouchCounts ==
    pc = "zc_returned" =>
        LET forward == {i \in ForwardTested :
                           Crosses(ZcAt(i), ZcAt(i + 1)) \/ Touches(ZcAt(i), ZcAt(i + 1))}
            backward == {i \in BackwardTested :
                           Crosses(ZcAt(i), ZcAt(i - 1)) \/ Touches(ZcAt(i), ZcAt(i - 1))}
        IN /\ (zc_call.direction = "forward" /\ forward # {}) => zc_result = Lowest(forward)
           /\ (zc_call.direction = "backward" /\ backward # {}) => zc_result = Highest(backward)

\* C13: with no crossing pair in the searched range the call returns the
\* position; otherwise the result lies in [max(0, position - window), position]
\* (backward) or [position, min(position + window, len - 1)] (forward).
C13_ResultInRange ==
    pc = "zc_returned" =>
        LET forward == {i \in ForwardTested : Crosses(ZcAt(i), ZcAt(i + 1))}
            backward == {i \in BackwardTested : Crosses(ZcAt(i), ZcAt(i - 1))}
            none == IF zc_call.direction = "forward" THEN forward = {} ELSE backward = {}
        IN /\ none => zc_result = zc_call.position
           /\ zc_call.direction = "backward" =>
                 (zc_result >= Max(0, zc_call.position - zc_call.window)
                  /\ zc_result <= zc_call.position)
           /\ zc_call.direction = "forward" =>
                 (zc_result >= zc_call.position
                  /\ zc_result <= Min(zc_call.position + zc_call.window, ZcLen - 1))

\* A backward search that moved off the position and stopped inside the window.
C13_Witness ==
    /\ pc = "zc_returned"
    /\ zc_call.direction = "backward"
    /\ zc_call.window > 1
    /\ zc_result < zc_call.position
    /\ zc_result > zc_call.position - zc_call.window

\* ---------------------------------------------------------------- 24-bit codec
DecodedBytes == pc \in {"codec_decoded", "codec_bytes_done"}

\* C14: 24-bit decode maps each whole group (b1, b2, b3) to
\* b1 + 256*b2 + 65536*b3 - 2^24*[b3 >= 128], a value in [-2^23, 2^23 - 1].
C14_SignExtendedDecode ==
    DecodedBytes =>
        \A k \in 1..Len(samples) :
            LET b1 == audio_data[3 * k - 2]
                b2 == audio_data[3 * k - 1]
                b3 == audio_data[3 * k]
            IN /\ samples[k] = b1 + 256 * b2 + 65536 * b3
                                - (IF b3 >= 128 THEN 16777216 ELSE 0)
               /\ samples[k] >= -8388608
               /\ samples[k] <= 8388607

\* A decoded buffer with a negative and a non-negative sample.
C14_Witness ==
    /\ DecodedBytes
    /\ \E k \in 1..Len(samples) : audio_data[3 * k] >= 128 /\ samples[k] < 0
    /\ \E k \in 1..Len(samples) : audio_data[3 * k] < 128 /\ samples[k] > 0

\* C15: encoding then decoding returns every sample array over
\* [-2^23, 2^23 - 1] (-1 goes through bytes FF FF FF), and decoding then
\* encoding returns every byte buffer whose length is a multiple of 3.
C15_RoundTrip ==
    /\ pc = "codec_samples_done" =>
          /\ roundtrip = samples
          /\ \A k \in 1..Len(samples) :
                samples[k] = -1 => SubSeq(output_data, 3 * k - 2, 3 * k) = <<255, 255, 255>>
    /\ (pc = "codec_bytes_done" /\ Len(audio_data) % 3 = 0) => roundtrip = audio_data

\* -1 and the most negative sample went through the bytes and came back.
C15_Witness ==
    /\ pc = "codec_samples_done"
    /\ samples = <<-1, -8388608>>
    /\ output_data = <<255, 255, 255, 0, 0, 128>>
    /\ roundtrip = samples

\* C16: decoding n bytes gives floor(n / 3) samples, the decode of the buffer
\* without its trailing n mod 3 bytes.
C16_PartialGroupDropped ==
    DecodedBytes =>
        LET whole == 3 * (Len(audio_data) \div 3)
        IN /\ Len(samples) = Len(audio_data) \div 3
           /\ samples = Decode(SubSeq(audio_data, 1, whole), 3)

\* A buffer of one whole group and a partial one, decoded to one sample.
C16_Witness ==
    /\ DecodedBytes
    /\ Len(audio_data) % 3 # 0
    /\ Len(audio_data) > 3
    /\ Len(samples) = 1

\* ---------------------------------------------------------------- normalize
NormIn == Decode(audio_data, sample_width)
NormOut == Decode(output_data, sample_width)

\* C17: with a sample width other than 1, 2, 3 or 4 bytes both normalize and
\* trim go from their start to failure, and no output is encoded or written.
C17_UnsupportedWidthFails ==
    ~Supported(sample_width) =>
        /\ pc \in {"start", "failed", "norm_start", "norm_failed"}
        /\ output_written = FALSE
        /\ output_data = <<>>

\* Either operation has failed on a non-empty input of an unsupported width.
C17_Witness ==
    /\ ~Supported(sample_width)
    /\ pc \in {"failed", "norm_failed"}
    /\ audio_data # <<>>
    /\ output_written = FALSE

\* The exact scaled value of input sample `sample` lies above max_val (Over)
\* or below the lower bound (Under) of the width.
Over(sample) ==
    IF zero = 0
    THEN target_peak_db > 0 /\ sample > peak \div GainNum(target_peak_db)
    ELSE (sample - zero) * GainNum(target_peak_db) * max_val
             > (max_val - zero) * GainDen(target_peak_db) * peak
Under(sample) ==
    IF zero = 0
    THEN target_peak_db > 0 /\ -sample > peak \div GainNum(target_peak_db)
    ELSE (sample - zero) * GainNum(target_peak_db) * max_val
             < (0 - zero) * GainDen(target_peak_db) * peak

\* C18: every sample normalize writes, decoded from the output bytes, lies in
\* [0, max_val] (unsigned 8-bit) or [-max_val, max_val] (signed), and a value
\* scaled beyond a bound is written as that bound.
C18_Saturates ==
    (pc = "norm_done" /\ Supported(sample_width)) =>
        \A k \in 1..Len(NormOut) :
            /\ NormOut[k] <= max_val
            /\ NormOut[k] >= (IF zero = 0 THEN -max_val ELSE 0)
            /\ (peak > 0 /\ Over(NormIn[k])) => NormOut[k] = max_val
            /\ (peak > 0 /\ Under(NormIn[k])) =>
                  NormOut[k] = (IF zero = 0 THEN -max_val ELSE 0)

\* A 24-bit buffer written with a sample below max_val saturated at max_val
\* and another scaled inside the range.
C18_Witness ==
    /\ pc = "norm_done"
    /\ sample_width = 3
    /\ target_peak_db = 20
    /\ \E k \in 1..Len(NormOut) : Over(NormIn[k]) /\ NormIn[k] < max_val
                                     /\ NormOut[k] = max_val
    /\ \E k \in 1..Len(NormOut) : NormIn[k] = -1 /\ NormOut[k] = -346

\* C19: for a non-silent buffer and a target of at most 0 dB the peak of the
\* written samples is within one step of 10^(target_peak_db/20) * max_val;
\* at 0 dB it is max_val, or max_val - 1.
C19_PeakReachesTarget ==
    (pc = "norm_done" /\ Supported(sample_width) /\ peak > 0 /\ target_peak_db <= 0) =>
        LET out == PeakOf(NormOut, zero)
            den == GainDen(target_peak_db)
        IN /\ out >= (max_val - 1) \div den
           /\ out - 1 <= max_val \div den

\* C20: a non-empty buffer whose samples all equal the zero point is
\* normalized with success, gain 1.0 and the input bytes as output.
C20_SilenceIdentity ==
    (/\ Supported(sample_width)
     /\ Len(NormIn) > 0
     /\ \A k \in 1..Len(NormIn) : NormIn[k] = zero) =>
        /\ pc # "norm_failed"
        /\ pc \in {"norm_peaked", "norm_scaled", "norm_done"} =>
              (peak = 0 /\ scale_factor = [num |-> 1, den |-> 1, max_val |-> 1, peak |-> 1])
        /\ pc = "norm_done" => output_data = audio_data

\* A silent 24-bit buffer written back at a target of -20 dB.
C20_Witness ==
    /\ pc = "norm_done"
    /\ sample_width = 3
    /\ target_peak_db = -20
    /\ Len(NormIn) = MaxNormSamples
    /\ \A k \in 1..Len(NormIn) : NormIn[k] = zero
    /\ output_data = audio_data
    /\ output_written

\* ---------------------------------------------------------------- normalize: silence, empty, twice
NormNonEmpty == Supported(sample_width) /\ Len(NormIn) > 0
NormPeaked == pc \in {"norm_peaked", "norm_scaled", "norm_done"}

\* C21 as stated: a non-empty buffer whose samples are all 0, at any supported
\* width, is normalized with success, the silent-input warning and an all-0
\* output.
C21_AllZeroSilent ==
    (NormNonEmpty /\ \A k \in 1..Len(NormIn) : NormIn[k] = 0) =>
        /\ pc # "norm_failed"
        /\ NormPeaked => silent_warning
        /\ pc = "norm_done" => \A k \in 1..Len(NormOut) : NormOut[k] = 0

\* C21 amended: a non-empty buffer whose samples are all at the zero point of
\* the width (0 for 16, 24 and 32 bits, 128 for unsigned 8 bits) is normalized
\* with success, the silent-input warning, and every output sample at that
\* zero point.
C21_ZeroPointSilent ==
    LET silence == IF sample_width = 1 THEN 128 ELSE 0
    IN (NormNonEmpty /\ \A k \in 1..Len(NormIn) : NormIn[k] = silence) =>
           /\ pc # "norm_failed"
           /\ NormPeaked => silent_warning
           /\ pc = "norm_done" =>
                 /\ output_written
                 /\ Len(NormOut) = Len(NormIn)
                 /\ \A k \in 1..Len(NormOut) : NormOut[k] = silence

\* An 8-bit buffer of 128s written back as 128s with the warning raised.
C21_Witness ==
    /\ pc = "norm_done"
    /\ sample_width = 1
    /\ target_peak_db = 0
    /\ Len(NormIn) > 1
    /\ \A k \in 1..Len(NormIn) : NormIn[k] = 128
    /\ \A k \in 1..Len(NormOut) : NormOut[k] = 128
    /\ silent_warning

\* C22: normalizing a buffer of no samples, at a supported width, does not
\* fail, and ends with an empty output written.
C22_EmptyBufferSucceeds ==
    (Supported(sample_width) /\ audio_data = <<>>) =>
        /\ pc # "norm_failed"
        /\ pc = "norm_done" => (output_written /\ output_data = <<>>)

\* C23: after a second normalize of the output of a first, to the same target,
\* the peak of the written samples is within one step of the peak the first
\* one wrote, for a buffer that is not silent.
C23_SecondPassKeepsPeak ==
    (pc = "norm_done" /\ previous_peak > 0) =>
        LET again == PeakOf(NormOut, zero)
        IN again - previous_peak <= 1 /\ previous_peak - again <= 1

\* A 16-bit buffer normalized twice to 0 dB: 32766 after the first call, 32767
\* after the second.
C23_Witness ==
    /\ pc = "norm_done"
    /\ sample_width = 2
    /\ target_peak_db = 0
    /\ previous_peak = 32766
    /\ PeakOf(NormOut, zero) = 32767

\* ---------------------------------------------------------------- batch runs
BatchRunning == pc \in {"batch_loop", "batch_returned"}

\* C24: within one run of normalize_directory, or of trim_directory writing
\* into the input directory, no listed file's output path is the path of
\* another listed file of the same run.
C24_NoOutputCollision ==
    (BatchRunning /\ batch_tool \in {"trim", "normalize"} /\ output_dir = "directory")
        => \A i, j \in 1..Len(files) :
              i # j => OutputPath(batch_tool, output_dir, files[i]).name # files[j]

\* C26: a batch run hands every listed file to the per-file function exactly
\* once, in the listed order, whether or not earlier files failed; the
\* success count never exceeds the number of listed files; and the run
\* returns true exactly when at least one file succeeded.
C26_BatchRunsThrough ==
    BatchRunning =>
        /\ file_index <= Len(files)
        /\ processed = SubSeq(files, 1, file_index)
        /\ success_count <= Len(files)
        /\ success_count = Len(written)
        /\ pc = "batch_returned" =>
              /\ processed = files
              /\ batch_result \in {"true", "false"}
              /\ batch_result = "true" <=> Len(written) > 0

\* A run of two files whose first file failed and whose second succeeded.
C26_Witness ==
    /\ pc = "batch_returned"
    /\ Len(files) = 2
    /\ processed = files
    /\ written = <<OutputPath(batch_tool, output_dir, files[2])>>
    /\ success_count = 1
    /\ batch_result = "true"

\* ---------------------------------------------------------------- per-channel end points
\* C25: a channel whose backward scan finds its first above-threshold window
\* at index w enters reconciliation with the end point
\* min(w + window_size + min_tail_samples, len), and no zero-crossing search
\* has been made before reconciliation.
C25_EndPointUnsnapped ==
    pc = "reconciled" =>
        /\ \A c \in 1..Len(ScannedArrays) :
              LET w == LoudWindowStart(ScannedArrays[c], zero, max_val, threshold_db, ScanWindow)
              IN w > 0 => channel_end_points[c] =
                             TailedEndPoint(ScannedArrays[c], w, ScanWindow, min_samples)
        /\ zc_calls = <<>>

\* ---------------------------------------------------------------- join
\* The frames of an input file of the join, when its data is whole frames.
JoinFrames(file) == Len(file.frames) \div file.sampwidth
JoinSample(file, k) == SubSeq(file.frames, k * file.sampwidth + 1, (k + 1) * file.sampwidth)
JoinReturned == pc \in {"join_done", "join_failed"}
Joinable ==
    /\ left_file.n_channels = 1
    /\ right_file.n_channels = 1
    /\ left_file.sampwidth = right_file.sampwidth
    /\ left_file.framerate = right_file.framerate
    /\ Len(left_file.frames) % left_file.sampwidth = 0
    /\ Len(right_file.frames) % right_file.sampwidth = 0

\* C27: two mono inputs of equal width and rate with nL and nR frames give a
\* 2-channel output of exactly min(nL, nR) frames, frame k being left sample k
\* followed by right sample k.
C27_JoinInterleaves ==
    (JoinReturned /\ Joinable) =>
        /\ pc = "join_done"
        /\ stereo_file.n_channels = 2
        /\ stereo_file.sampwidth = left_file.sampwidth
        /\ stereo_file.framerate = left_file.framerate
        /\ Len(stereo_file.frames) =
              2 * left_file.sampwidth * Min(JoinFrames(left_file), JoinFrames(right_file))
        /\ \A k \in 0..(Min(JoinFrames(left_file), JoinFrames(right_file)) - 1) :
              SubSeq(stereo_file.frames, 2 * k * left_file.sampwidth + 1,
                     2 * (k + 1) * left_file.sampwidth)
                 = JoinSample(left_file, k) \o JoinSample(right_file, k)

\* A 16-bit left file of two frames joined with a right file of one frame.
C27_Witness ==
    /\ pc = "join_done"
    /\ Joinable
    /\ left_file.sampwidth = 2
    /\ left_file.frames = <<1, 2, 2, 2>>
    /\ right_file.frames = <<2, 1>>
    /\ stereo_file.frames = <<1, 2, 2, 1>>

\* ---------------------------------------------------------------- slice
SliceReturned == pc \in {"slice_done", "slice_failed"}
BytesPerFrame == n_channels * sample_width
SegmentFrames(k) == Len(output_files[k].frames) \div BytesPerFrame

\* C28: with samples_per_slice >= 1 and n >= 1 whole frames of input, the
\* slicer writes ceil(n / samples_per_slice) segments numbered 1, 2, ...
\* whose data, concatenated in order, is the input; every segment but the
\* last has samples_per_slice frames and the last has 1..samples_per_slice.
C28_SlicesPartition ==
    (/\ SliceReturned
     /\ bpm # 0
     /\ SamplesPerSlice(bpm, bars_per_slice, framerate) >= 1
     /\ n_frames >= 1
     /\ Len(audio_data) = n_frames * BytesPerFrame) =>
        /\ pc = "slice_done"
        /\ samples_per_slice = SamplesPerSlice(bpm, bars_per_slice, framerate)
        /\ (Len(output_files) - 1) * samples_per_slice < n_frames
        /\ n_frames <= Len(output_files) * samples_per_slice
        /\ \A k \in 1..Len(output_files) :
              /\ output_files[k].segment_number = k
              /\ Len(output_files[k].frames) % BytesPerFrame = 0
              /\ SegmentFrames(k) >= 1
              /\ SegmentFrames(k) <= samples_per_slice
              /\ k < Len(output_files) => SegmentFrames(k) = samples_per_slice
        /\ Flatten([k \in 1..Len(output_files) |-> output_files[k].frames]) = audio_data

\* Three frames cut into slices of two: a full segment and a last one of one.
C28_Witness ==
    /\ pc = "slice_done"
    /\ n_frames = 3
    /\ Len(audio_data) = 3 * BytesPerFrame
    /\ samples_per_slice = 2
    /\ Len(output_files) = 2
    /\ SegmentFrames(1) = 2
    /\ SegmentFrames(2) = 1

\* ---------------------------------------------------------------- rename
\* The files the loop renamed or copied.
Moved == {k \in 1..Len(renamed) : renamed[k].how \in {"renamed", "copied"}}

\* C29: the i-th file in sorted order (from 0) gets note start_note + i, the
\* notes given are pairwise distinct and none is above 127; when
\* start_note + file_count - 1 > 127 the call fails with nothing renamed or
\* copied.
C29_NotesWithinMidi ==
    /\ \A i \in 1..Len(rename_mapping) :
          /\ rename_mapping[i].old_file = audio_files[i]
          /\ rename_mapping[i].note = start_note + (i - 1)
          /\ rename_mapping[i].note <= 127
          /\ \A j \in 1..Len(rename_mapping) :
                rename_mapping[i].note = rename_mapping[j].note => i = j
    /\ \A i, j \in 1..Len(audio_files) : i < j => audio_files[i] < audio_files[j]
    /\ \A k \in 1..Len(renamed) :
          /\ renamed[k].old_file = rename_mapping[k].old_file
          /\ renamed[k].note = rename_mapping[k].note
    /\ (pc \in {"rename_loop", "rename_returned"} /\ directory.isdir
            /\ start_note + Cardinality(directory.audio) - 1 > 127) =>
          /\ pc = "rename_returned"
          /\ rename_result = "false"
          /\ rename_mapping = <<>>
          /\ renamed = <<>>
    /\ (pc = "rename_returned" /\ directory.isdir
            /\ start_note + Cardinality(directory.audio) - 1 <= 127) =>
          /\ rename_result = "true"
          /\ Len(rename_mapping) = Cardinality(directory.audio)

\* Two files renamed to the last two notes, 126 and 127.
C29_Witness ==
    /\ pc = "rename_returned"
    /\ rename_result = "true"
    /\ start_note = 126
    /\ Len(audio_files) = 2
    /\ Moved = {1, 2}
    /\ renamed[2].note = 127

\* ---------------------------------------------------------------- snapping twice
\* C30: a backward search from the position a backward search returned, on
\* the same samples with the same window, returns that position again.
C30_BackwardSnapIdempotent ==
    pc = "zc_resnapped" => zc_resnap = zc_result

\* The first search moved to a crossing that has another crossing inside the
\* window below it, and the second search stayed.
C30_Witness ==
    /\ pc = "zc_resnapped"
    /\ zc_result < zc_call.position
    /\ \E i \in 1..(zc_result - 1) :
          /\ i > zc_result - zc_call.window
          /\ Crosses(ZcAt(i), ZcAt(i - 1))
    /\ zc_resnap = zc_result

====
